---- MODULE Spec2Model ----
(***************************************************************************)
(* Model of vagus_bot.py: the main loop, trade_decision and its helpers,   *)
(* together with the brokerage and market-data gateways they call.         *)
(*                                                                         *)
(* Real numbers are exact rationals <<n, d>> with d > 0, kept in lowest    *)
(* terms; <<0, 0>> is the floating-point NaN.  Share quantities, equity    *)
(* and quote prices are whole numbers.                                     *)
(***************************************************************************)
EXTENDS Integers, Sequences, FiniteSets

-----------------------------------------------------------------------------
(* Bounds of the model *)

\* number of cycles (invocations of trade_decision) one run of the loop makes
MaxCycles == 3

-----------------------------------------------------------------------------
(* Configuration, vagus_bot.py lines 30-49 *)

SYMBOL == "SPY"
RSI_LOWER == 30
RSI_UPPER == 70
VAGUS_NERVE_SENSITIVITY == <<1, 2>>
POSITION_SIZE_FRACTION == <<1, 10>>
LOOP_INTERVAL == 900
\* the literal 14 of len(bars) < 14, rolling(14) and timeperiod=14
MIN_BARS == 14
\* the literal 0.005 of baseline_atr
BASELINE_SCALE == <<1, 200>>

-----------------------------------------------------------------------------
(* Arithmetic *)

Abs(x) == IF x < 0 THEN -x ELSE x

Max(a, b) == IF a >= b THEN a ELSE b

RECURSIVE GCD(_, _)
GCD(a, b) == IF b = 0 THEN a ELSE GCD(b, a % b)

NaN == <<0, 0>>

IsNaN(a) == a[2] = 0

\* n/d in lowest terms with a positive denominator; x/0 is NaN
Rat(n, d) ==
    IF d = 0 THEN NaN
    ELSE LET s == IF d < 0 THEN -1 ELSE 1
             g == GCD(Abs(n), Abs(d))
         IN  <<(s * n) \div g, (s * d) \div g>>

Int2Rat(i) == <<i, 1>>

RAdd(a, b) == IF IsNaN(a) \/ IsNaN(b) THEN NaN
              ELSE Rat(a[1] * b[2] + b[1] * a[2], a[2] * b[2])

RSub(a, b) == IF IsNaN(a) \/ IsNaN(b) THEN NaN
              ELSE Rat(a[1] * b[2] - b[1] * a[2], a[2] * b[2])

RMul(a, b) == IF IsNaN(a) \/ IsNaN(b) THEN NaN
              ELSE Rat(a[1] * b[1], a[2] * b[2])

RDiv(a, b) == IF IsNaN(a) \/ IsNaN(b) THEN NaN
              ELSE Rat(a[1] * b[2], a[2] * b[1])

\* Python's comparisons: every comparison with NaN is False
RLt(a, b) == ~IsNaN(a) /\ ~IsNaN(b) /\ a[1] * b[2] < b[1] * a[2]
RGt(a, b) == RLt(b, a)
RLe(a, b) == ~IsNaN(a) /\ ~IsNaN(b) /\ a[1] * b[2] <= b[1] * a[2]
RGe(a, b) == RLe(b, a)

\* floor(n / d) for d # 0, rounding towards minus infinity as Python's //
FloorDiv(n, d) ==
    LET s == IF d < 0 THEN -1 ELSE 1
    IN  (s * n) \div (s * d)

-----------------------------------------------------------------------------
(* Bar series returned by api.get_bars(...).df *)

\* n bars around price c: half-range d, closes alternating between c and c+g
MkBars(n, c, d, g) ==
    [i \in 1..n |-> LET cl == c + g * (i % 2)
                    IN  [high |-> cl + d, low |-> cl - d, close |-> cl]]

\* what get_recent_bars can return: too short, exactly 14 bars, more
RecentBarSeries ==
    { MkBars(n, 400, 1, 0) : n \in {MIN_BARS - 1, MIN_BARS, MIN_BARS + 1} }

\* what the 5-day fetch of get_vagus_nerve_factor can return
VagusBarSeries ==
    { MkBars(MIN_BARS - 1, 400, 3, 0),
      MkBars(MIN_BARS, 400, 0, 0),
      MkBars(MIN_BARS + 1, 400, 1, 0),
      MkBars(MIN_BARS, 400, 1, 2) }

-----------------------------------------------------------------------------
(* get_vagus_nerve_factor, lines 83-100 *)

\* row i of tr: close.shift(1) is missing on the first row and max(axis=1)
\* skips the missing values, so the first row is high - low
TrueRange(bars, i) ==
    LET high_low == bars[i].high - bars[i].low
    IN  IF i = 1 THEN high_low
        ELSE LET high_close == Abs(bars[i].high - bars[i - 1].close)
                 low_close  == Abs(bars[i].low - bars[i - 1].close)
             IN  Max(high_low, Max(high_close, low_close))

RECURSIVE SumTR(_, _, _)
SumTR(bars, from, to) ==
    IF from > to THEN 0 ELSE TrueRange(bars, from) + SumTR(bars, from + 1, to)

RECURSIVE SumClose(_, _)
SumClose(bars, to) ==
    IF to = 0 THEN 0 ELSE bars[to].close + SumClose(bars, to - 1)

\* tr.rolling(14).mean().iloc[-1]
ATR(bars) == Rat(SumTR(bars, Len(bars) - MIN_BARS + 1, Len(bars)), MIN_BARS)

\* bars['close'].mean() * 0.005
BaselineATR(bars) == RMul(Rat(SumClose(bars, Len(bars)), Len(bars)), BASELINE_SCALE)

StressFactor(bars) == RDiv(ATR(bars), BaselineATR(bars))

\* variant of VagusFactor: the stress is scaled by the sensitivity
VagusFactorScaled(stress_factor, sensitivity) == RMul(stress_factor, sensitivity)

\* 1.0 + (stress_factor - 1.0) * VAGUS_NERVE_SENSITIVITY
VagusFactor(stress_factor, sensitivity) ==
    RAdd(Int2Rat(1), RMul(RSub(stress_factor, Int2Rat(1)), sensitivity))

\* variant of get_vagus_nerve_factor: too few bars give no factor
get_vagus_nerve_factor_no_default(bars, sensitivity) ==
    IF Len(bars) < MIN_BARS THEN NaN
    ELSE VagusFactor(StressFactor(bars), sensitivity)

\* lines 83-100
get_vagus_nerve_factor(bars, sensitivity) ==
    IF Len(bars) < MIN_BARS THEN Int2Rat(1)
    ELSE VagusFactor(StressFactor(bars), sensitivity)

-----------------------------------------------------------------------------
(* compute_rsi_vagus_adjusted, lines 109-120 *)

\* values talib.RSI can give for a series long enough
RSIValues == {25, 30, 70, 75}

\* rsi.iloc[-1]: the 14-period RSI has no value before the 15th price
LatestRSI(prices) ==
    IF Len(prices) <= MIN_BARS THEN {NaN}
    ELSE { Int2Rat(v) : v \in RSIValues }

AdjustThreshold(rsi_threshold, vagus_factor) ==
    RMul(Int2Rat(rsi_threshold), vagus_factor)

-----------------------------------------------------------------------------
(* calculate_order_quantity, lines 150-161 *)

\* quote.askprice if quote.askprice > 0 else quote.bidprice
QuotePrice(quote) == IF quote.askprice > 0 THEN quote.askprice ELSE quote.bidprice

\* variant of Shares: an allocation that pays exactly for n shares buys n - 1
SharesBelow(equity, fraction, last_price) ==
    LET allocate == RMul(Int2Rat(equity), fraction)
    IN  Max(FloorDiv(allocate[1] - 1, allocate[2] * last_price), 0)

\* max(int(allocate // last_price), 0), for last_price # 0
Shares(equity, fraction, last_price) ==
    LET allocate == RMul(Int2Rat(equity), fraction)
    IN  Max(FloorDiv(allocate[1], allocate[2] * last_price), 0)

\* account.equity as the brokerage can report it
EquityValues == {0, 500, 10000}

\* quotes and last trades the brokerage can report
Quotes == { [askprice |-> a, bidprice |-> b] : a \in {0, 100}, b \in {0, 99} }
TradePrices == {0, 100}

\* faults a gateway call can raise: an error answer of the API, a transport failure
FaultKinds == {"APIError", "ConnectionError"}

\* positions the account can hold when the bot starts (negative: short)
InitialPositions == {-3, 0, 9}

-----------------------------------------------------------------------------
(* State *)

VARIABLES
    pc,             \* where the process is: "start" (line 224), "bars" (229/167),
                    \* "signal" (173), "position" (181), "sell" (192), "account" (150),
                    \* "quote" (154), "trade" (158), "buy" (207), "sleep" (231),
                    \* "except" (235-238), "exit" (after break), "crashed" (uncaught)
    cycle,          \* number of invocations of trade_decision so far
    bars,           \* trade_decision: bars
    vagus_bars,     \* get_vagus_nerve_factor: bars
    latest_rsi,     \* trade_decision: latest_rsi
    rsi_lower_adj,  \* trade_decision: rsi_lower_adj
    rsi_upper_adj,  \* trade_decision: rsi_upper_adj
    position,       \* trade_decision: position, [state, qty]; state "none" is None
    lookup,         \* how api.get_position answered in this cycle
    equity,         \* calculate_order_quantity: equity
    last_price,     \* calculate_order_quantity: last_price
    qty,            \* trade_decision: qty
    vagus_factor,   \* compute_rsi_vagus_adjusted: vagus_factor
    fraction,       \* calculate_order_quantity: fraction
    quote,          \* calculate_order_quantity: quote, [askprice, bidprice]
    last_trade,     \* calculate_order_quantity: last_trade.price
    sensitivity,    \* the module's VAGUS_NERVE_SENSITIVITY
    exc,            \* the exception being propagated or handled, "" if none
    out,            \* lines printed since the cycle started
    calls,          \* api methods called since the cycle started
    orders,         \* every api.submit_order call made, with its cycle
    sleeps,         \* time.sleep calls made since the last cycle started
    faults,         \* number of consecutive cycles that ended in the except clause
    interrupted,    \* <<>>, or where the process was when Ctrl+C arrived
    entered,        \* the bars and signal of the previous cycle if it submitted
                    \* a buy order, <<>> if it did not
    brokerPos,      \* brokerage: signed quantity held in SYMBOL
    pending         \* brokerage: accepted orders not yet filled

vars == <<pc, cycle, bars, vagus_bars, latest_rsi, rsi_lower_adj, rsi_upper_adj,
          position, lookup, equity, last_price, qty, exc, out, calls, orders,
          sleeps, faults, interrupted, entered, brokerPos, pending,
          vagus_factor, fraction, quote, last_trade, sensitivity>>

locals == <<bars, vagus_bars, latest_rsi, rsi_lower_adj, rsi_upper_adj,
            position, lookup, equity, last_price, qty,
            vagus_factor, fraction, quote, last_trade>>

broker == <<brokerPos, pending>>

NoPosition == [state |-> "unqueried", qty |-> 0]

NoQuote == [askprice |-> 0, bidprice |-> 0]

Init ==
    /\ pc = "start"
    /\ cycle = 0
    /\ bars = <<>>
    /\ vagus_bars = <<>>
    /\ latest_rsi = NaN
    /\ rsi_lower_adj = NaN
    /\ rsi_upper_adj = NaN
    /\ position = NoPosition
    /\ lookup = ""
    /\ equity = 0
    /\ last_price = 0
    /\ qty = 0
    /\ vagus_factor = NaN
    /\ fraction = NaN
    /\ quote = NoQuote
    /\ last_trade = 0
    /\ sensitivity = VAGUS_NERVE_SENSITIVITY
    /\ exc = ""
    /\ out = <<>>
    /\ calls = {}
    /\ orders = <<>>
    /\ sleeps = <<>>
    /\ faults = 0
    /\ interrupted = <<>>
    /\ entered = <<>>
    /\ brokerPos \in InitialPositions
    /\ pending = <<>>

-----------------------------------------------------------------------------
(* Control transfers *)

\* trade_decision returns: line 231 is next
Return ==
    /\ pc' = "sleep"
    /\ exc' = ""
    /\ faults' = 0

\* an exception leaves trade_decision: the except clause of line 235 is next
Raise(kind) ==
    /\ pc' = "except"
    /\ exc' = kind
    /\ faults' = faults + 1

Emit(line) == out' = Append(out, line)

Call(method) == calls' = calls \cup {method}

-----------------------------------------------------------------------------
(* The __main__ block before the loop, lines 224-226 *)

\* get_account_info() runs outside the try statement: what it raises is not caught
GetAccountInfo ==
    /\ pc = "start"
    /\ Call("get_account")
    /\ \/ /\ pc' = "bars"
          /\ out' = out \o <<"Account Status", "Starting">>
          /\ exc' = exc
       \/ \E kind \in FaultKinds :
             /\ pc' = "crashed"
             /\ exc' = kind
             /\ out' = out
    /\ UNCHANGED <<cycle, locals, orders, sleeps, faults, interrupted, entered, broker, sensitivity>>

-----------------------------------------------------------------------------
(* trade_decision, lines 163-217 *)

\* variant of NotEnoughBars: 13 bars are enough
NotEnoughBarsOffByOne(b) == Len(b) < MIN_BARS - 1

\* line 168: if len(bars) < 14
NotEnoughBars(b) == Len(b) < MIN_BARS

\* lines 167-170: a new cycle starts with the fetch of the recent bars
GetRecentBars ==
    /\ pc = "bars"
    /\ cycle < MaxCycles
    /\ cycle' = cycle + 1
    /\ calls' = {"get_bars"}
    /\ sleeps' = <<>>
    /\ \/ \E b \in RecentBarSeries :
             /\ bars' = b
             /\ IF NotEnoughBars(b)
                THEN /\ out' = <<"Not enough bars">>
                     /\ Return
                ELSE /\ out' = <<>>
                     /\ pc' = "signal"
                     /\ UNCHANGED <<exc, faults>>
       \/ \E kind \in FaultKinds :
             /\ bars' = <<>>
             /\ out' = <<>>
             /\ Raise(kind)
    /\ UNCHANGED <<vagus_bars, latest_rsi, rsi_lower_adj, rsi_upper_adj, position,
                   lookup, equity, last_price, qty, vagus_factor, fraction, quote,
                   last_trade, orders, interrupted, entered, broker, sensitivity>>

\* lines 173-179 with compute_rsi_vagus_adjusted and get_vagus_nerve_factor
ComputeRsiVagusAdjusted ==
    /\ pc = "signal"
    /\ Call("get_bars")
    /\ \/ \E rsi \in LatestRSI(bars), vb \in VagusBarSeries :
             LET factor == get_vagus_nerve_factor(vb, sensitivity)
             IN  /\ vagus_bars' = vb
                 /\ latest_rsi' = rsi
                 /\ vagus_factor' = factor
                 /\ rsi_lower_adj' = AdjustThreshold(RSI_LOWER, factor)
                 /\ rsi_upper_adj' = AdjustThreshold(RSI_UPPER, factor)
                 /\ Emit("RSI")
                 /\ pc' = "position"
                 /\ UNCHANGED <<exc, faults>>
       \/ \E kind \in FaultKinds :
             /\ Raise(kind)
             /\ UNCHANGED <<vagus_bars, latest_rsi, vagus_factor, rsi_lower_adj,
                            rsi_upper_adj, out>>
    /\ UNCHANGED <<cycle, bars, position, lookup, equity, last_price, qty, fraction,
                   quote, last_trade, orders, sleeps, interrupted, entered, broker,
                   sensitivity>>

\* variant of ExitSignal: the exit fires already at the threshold
ExitSignalInclusive(position_qty, rsi, upper) == position_qty > 0 /\ RGe(rsi, upper)

\* line 189: float(position.qty) > 0 and latest_rsi > rsi_upper_adj
ExitSignal(position_qty, rsi, upper) == position_qty > 0 /\ RGt(rsi, upper)

\* variant of EntrySignal: the entry fires already at the threshold
EntrySignalInclusive(rsi, lower) == RLe(rsi, lower)

\* line 202: latest_rsi < rsi_lower_adj
EntrySignal(rsi, lower) == RLt(rsi, lower)

\* variant of ExitQuantity: half of the position is sold
ExitQuantityHalf(position_qty) == (Abs(position_qty) + 1) \div 2

\* line 184: abs(int(position.qty))
ExitQuantity(position_qty) == Abs(position_qty)

\* variant of InPosition: the exit does not look at the side of the position
InPositionAnySide(position_qty) ==
    /\ position' = [state |-> "held", qty |-> position_qty]
    /\ qty' = ExitQuantity(position_qty)
    /\ IF RGt(latest_rsi, rsi_upper_adj)
       THEN /\ out' = out \o <<"Current position", "closing long position">>
            /\ pc' = "sell"
            /\ UNCHANGED <<exc, faults>>
       ELSE /\ Emit("Current position")
            /\ Return

\* lines 182-199: the branch taken when get_current_position returned a position
InPosition(position_qty) ==
    /\ position' = [state |-> "held", qty |-> position_qty]
    /\ qty' = ExitQuantity(position_qty)
    /\ IF ExitSignal(position_qty, latest_rsi, rsi_upper_adj)
       THEN /\ out' = out \o <<"Current position", "closing long position">>
            /\ pc' = "sell"
            /\ UNCHANGED <<exc, faults>>
       ELSE /\ Emit("Current position")
            /\ Return

\* lines 200-217: the branch taken when get_current_position returned None
OutOfPosition ==
    /\ position' = [state |-> "none", qty |-> 0]
    /\ qty' = qty
    /\ IF EntrySignal(latest_rsi, rsi_lower_adj)
       THEN /\ pc' = "account"
            /\ UNCHANGED <<out, exc, faults>>
       ELSE /\ Emit("No trade signal")
            /\ Return

\* line 181 with get_current_position (lines 139-144) and the branch of line 182:
\* every APIError of api.get_position is answered with None
GetCurrentPosition ==
    /\ pc = "position"
    /\ Call("get_position")
    /\ \/ /\ brokerPos # 0
          /\ lookup' = "found"
          /\ InPosition(brokerPos)
       \/ /\ brokerPos = 0
          /\ lookup' = "not_found"
          /\ OutOfPosition
       \/ /\ lookup' = "api_error"
          /\ OutOfPosition
       \/ /\ lookup' = "transport_error"
          /\ Raise("ConnectionError")
          /\ UNCHANGED <<position, qty, out>>
    /\ UNCHANGED <<cycle, bars, vagus_bars, latest_rsi, rsi_lower_adj, rsi_upper_adj,
                   equity, last_price, vagus_factor, fraction, quote, last_trade,
                   orders, sleeps, interrupted, entered, broker, sensitivity>>

-----------------------------------------------------------------------------
(* calculate_order_quantity as called from line 204, and lines 205-215 *)

\* lines 150-152
SizerGetAccount ==
    /\ pc = "account"
    /\ Call("get_account")
    /\ fraction' = POSITION_SIZE_FRACTION
    /\ \/ \E e \in EquityValues :
             /\ equity' = e
             /\ pc' = "quote"
             /\ UNCHANGED <<exc, faults>>
       \/ \E kind \in FaultKinds :
             /\ equity' = equity
             /\ Raise(kind)
    /\ UNCHANGED <<cycle, bars, vagus_bars, latest_rsi, rsi_lower_adj, rsi_upper_adj,
                   position, lookup, last_price, qty, vagus_factor, quote, last_trade,
                   out, orders, sleeps, interrupted, entered, broker, sensitivity>>

\* variant of HasShares: a quantity of 0 is ordered too
HasSharesOrNone(shares) == shares >= 0

\* line 205: if qty > 0
HasShares(shares) == shares > 0

\* lines 160-161 and 205-215, once last_price is known: the division raises
\* ZeroDivisionError when last_price is 0
SizeOrder(price) ==
    /\ last_price' = price
    /\ IF price = 0
       THEN /\ Raise("ZeroDivisionError")
            /\ UNCHANGED <<qty, out>>
       ELSE LET shares == Shares(equity, fraction, price)
            IN  /\ qty' = shares
                /\ IF HasShares(shares)
                   THEN /\ Emit("buying")
                        /\ pc' = "buy"
                        /\ UNCHANGED <<exc, faults>>
                   ELSE /\ Emit("Calculated quantity was 0")
                        /\ Return

\* lines 154-156: the quote, and the decision to fall back to the last trade
SizerGetLastQuote ==
    /\ pc = "quote"
    /\ Call("get_last_quote")
    /\ \/ \E q \in Quotes :
             /\ quote' = q
             /\ IF QuotePrice(q) = 0
                THEN /\ last_price' = 0
                     /\ pc' = "trade"
                     /\ UNCHANGED <<qty, out, exc, faults>>
                ELSE SizeOrder(QuotePrice(q))
       \/ \E kind \in FaultKinds :
             /\ Raise(kind)
             /\ UNCHANGED <<quote, last_price, qty, out>>
    /\ UNCHANGED <<cycle, bars, vagus_bars, latest_rsi, rsi_lower_adj, rsi_upper_adj,
                   position, lookup, equity, vagus_factor, fraction, last_trade,
                   orders, sleeps, interrupted, entered, broker, sensitivity>>

\* lines 158-159
SizerGetLastTrade ==
    /\ pc = "trade"
    /\ Call("get_last_trade")
    /\ \/ \E price \in TradePrices :
             /\ last_trade' = price
             /\ SizeOrder(price)
       \/ \E kind \in FaultKinds :
             /\ Raise(kind)
             /\ UNCHANGED <<last_trade, last_price, qty, out>>
    /\ UNCHANGED <<cycle, bars, vagus_bars, latest_rsi, rsi_lower_adj, rsi_upper_adj,
                   position, lookup, equity, vagus_factor, fraction, quote,
                   orders, sleeps, interrupted, entered, broker, sensitivity>>

-----------------------------------------------------------------------------
(* api.submit_order, lines 192-198 and 207-213 *)

\* the inputs the cycle decided on
Signal ==
    [bars |-> bars, latest_rsi |-> latest_rsi,
     rsi_lower_adj |-> rsi_lower_adj, rsi_upper_adj |-> rsi_upper_adj]

\* variant of OrderRequest: the order expires at the end of the day
OrderRequestDay(side) ==
    [cycle |-> cycle, symbol |-> SYMBOL, qty |-> qty, side |-> side,
     type |-> "market", time_in_force |-> "day"]

\* the keyword arguments of api.submit_order, lines 192-198 and 207-213
OrderRequest(side) ==
    [cycle |-> cycle, symbol |-> SYMBOL, qty |-> qty, side |-> side,
     type |-> "market", time_in_force |-> "gtc"]

\* variant of SubmitOrder: a rejected order is submitted a second time
SubmitOrderRetry(side) ==
    /\ Call("submit_order")
    /\ \/ /\ orders' = Append(orders, OrderRequest(side))
          /\ pending' = Append(pending, [side |-> side, qty |-> qty])
          /\ Return
       \/ /\ orders' = orders \o <<OrderRequest(side), OrderRequest(side)>>
          /\ pending' = pending
          /\ Raise("APIError")
    /\ UNCHANGED <<cycle, locals, out, sleeps, interrupted, entered, brokerPos, sensitivity>>

\* one call of api.submit_order: the brokerage accepts the order or rejects it
SubmitOrder(side) ==
    /\ Call("submit_order")
    /\ orders' = Append(orders, OrderRequest(side))
    /\ \/ /\ pending' = Append(pending, [side |-> side, qty |-> qty])
          /\ Return
       \/ /\ pending' = pending
          /\ Raise("APIError")
    /\ UNCHANGED <<cycle, locals, out, sleeps, interrupted, entered, brokerPos, sensitivity>>

SubmitSell ==
    /\ pc = "sell"
    /\ SubmitOrder("sell")

SubmitBuy ==
    /\ pc = "buy"
    /\ SubmitOrder("buy")

-----------------------------------------------------------------------------
(* The loop, lines 227-238 *)

\* the cycle is over: what it entered on, if it submitted a buy order
NoteEntry ==
    entered' = IF \E i \in 1..Len(orders) :
                      orders[i].cycle = cycle /\ orders[i].side = "buy"
               THEN <<Signal>>
               ELSE <<>>

\* the locals of trade_decision are gone once it has returned or raised
DropLocals ==
    /\ bars' = <<>>
    /\ vagus_bars' = <<>>
    /\ latest_rsi' = NaN
    /\ rsi_lower_adj' = NaN
    /\ rsi_upper_adj' = NaN
    /\ position' = NoPosition
    /\ lookup' = ""
    /\ equity' = 0
    /\ last_price' = 0
    /\ qty' = 0
    /\ vagus_factor' = NaN
    /\ fraction' = NaN
    /\ quote' = NoQuote
    /\ last_trade' = 0

\* variant of Sleep: the loop goes on without waiting
SleepNoWait ==
    /\ pc = "sleep"
    /\ sleeps' = sleeps
    /\ pc' = "bars"
    /\ out' = <<>>
    /\ calls' = {}
    /\ NoteEntry
    /\ DropLocals
    /\ UNCHANGED <<cycle, exc, orders, faults, interrupted, broker, sensitivity>>

\* line 231
Sleep ==
    /\ pc = "sleep"
    /\ sleeps' = Append(sleeps, LOOP_INTERVAL)
    /\ pc' = "bars"
    /\ out' = <<>>
    /\ calls' = {}
    /\ NoteEntry
    /\ DropLocals
    /\ UNCHANGED <<cycle, exc, orders, faults, interrupted, broker, sensitivity>>

\* variant of ExceptSleep: the loop gives up after two faulty cycles in a row
ExceptSleepCutoff ==
    /\ pc = "except"
    /\ out' = <<"Error encountered">>
    /\ calls' = {}
    /\ sleeps' = Append(sleeps, LOOP_INTERVAL)
    /\ exc' = ""
    /\ pc' = IF faults >= 2 THEN "exit" ELSE "bars"
    /\ NoteEntry
    /\ DropLocals
    /\ UNCHANGED <<cycle, orders, faults, interrupted, broker, sensitivity>>

\* lines 235-238
ExceptSleep ==
    /\ pc = "except"
    /\ out' = <<"Error encountered">>
    /\ calls' = {}
    /\ sleeps' = Append(sleeps, LOOP_INTERVAL)
    /\ exc' = ""
    /\ pc' = "bars"
    /\ NoteEntry
    /\ DropLocals
    /\ UNCHANGED <<cycle, orders, faults, interrupted, broker, sensitivity>>

\* variant of InTry: only the sleep of line 231 is covered
InTrySleepOnly == pc = "sleep"

\* the positions covered by the try statement of line 228
InTry == pc \in {"bars", "signal", "position", "sell", "account", "quote",
                 "trade", "buy", "sleep"}

\* Ctrl+C: caught by line 232 inside the try statement; uncaught before the loop
\* and inside the except clause of line 235.  Either way the process ends, and
\* what remains of it is where the interrupt arrived and how it ended.
KeyboardInterrupt ==
    /\ pc \notin {"exit", "crashed"}
    /\ interrupted' = <<pc>>
    /\ IF InTry
       THEN /\ out' = <<"Shutting down gracefully">>
            /\ pc' = "exit"
            /\ exc' = ""
       ELSE /\ out' = <<>>
            /\ pc' = "crashed"
            /\ exc' = "KeyboardInterrupt"
    /\ calls' = {}
    /\ DropLocals
    /\ UNCHANGED <<cycle, orders, sleeps, faults, entered, broker, sensitivity>>

-----------------------------------------------------------------------------
(* The brokerage *)

\* an accepted market order is filled at some later time.  The process reads
\* the position once per cycle, at line 181: a fill takes place while the
\* process sleeps or right before that read
Fill ==
    /\ pending # <<>>
    /\ pc \in {"sleep", "except", "position"}
    /\ brokerPos' = IF Head(pending).side = "buy"
                    THEN brokerPos + Head(pending).qty
                    ELSE brokerPos - Head(pending).qty
    /\ pending' = Tail(pending)
    /\ UNCHANGED <<pc, cycle, locals, exc, out, calls, orders, sleeps, faults,
                   interrupted, entered, sensitivity>>

-----------------------------------------------------------------------------
(* Specifications *)

Step ==
    \/ GetAccountInfo
    \/ GetRecentBars
    \/ ComputeRsiVagusAdjusted
    \/ GetCurrentPosition
    \/ SizerGetAccount
    \/ SizerGetLastQuote
    \/ SizerGetLastTrade
    \/ SubmitSell
    \/ SubmitBuy
    \/ Sleep
    \/ ExceptSleep

Next ==
    \/ GetAccountInfo
    \/ GetRecentBars
    \/ ComputeRsiVagusAdjusted
    \/ GetCurrentPosition
    \/ SizerGetAccount
    \/ SizerGetLastQuote
    \/ SizerGetLastTrade
    \/ SubmitSell
    \/ SubmitBuy
    \/ Sleep
    \/ ExceptSleep
    \/ KeyboardInterrupt
    \/ Fill

Spec == Init /\ [][Next]_vars

\* every call and every sleep of the process returns; nothing is assumed of
\* the interrupt or of the brokerage's fills
FairSpec == Spec /\ WF_vars(Step)

-----------------------------------------------------------------------------
(* calculate_order_quantity and get_vagus_nerve_factor applied to given inputs *)

\* account.equity, the fraction argument, the quote and the last trade that
\* calculate_order_quantity works on
FnEquities == {0, 500, 999, 10000}
FnFractions == {<<0, 1>>, <<1, 10>>, <<1, 2>>, <<1, 1>>}
FnQuotes == Quotes
FnTrades == TradePrices

\* bars of the 5-day fetch: too few, then a stress_factor of 0, 1/2, 1 and 3
FnBarSeries ==
    { MkBars(MIN_BARS - 1, 400, 3, 0),
      MkBars(MIN_BARS, 400, 0, 0),
      MkBars(MIN_BARS, 800, 1, 0),
      MkBars(MIN_BARS, 400, 1, 0),
      MkBars(MIN_BARS, 400, 3, 0) }

\* values VAGUS_NERVE_SENSITIVITY can be configured to
FnSensitivities == {<<0, 1>>, <<1, 2>>, <<1, 1>>, <<2, 1>>}

FnInit ==
    /\ pc = "fn"
    /\ equity \in FnEquities
    /\ fraction \in FnFractions
    /\ quote \in FnQuotes
    /\ last_trade \in FnTrades
    /\ vagus_bars \in FnBarSeries
    /\ sensitivity \in FnSensitivities
    /\ cycle = 0
    /\ bars = <<>>
    /\ latest_rsi = NaN
    /\ rsi_lower_adj = NaN
    /\ rsi_upper_adj = NaN
    /\ position = NoPosition
    /\ lookup = ""
    /\ last_price = 0
    /\ qty = 0
    /\ vagus_factor = NaN
    /\ exc = ""
    /\ out = <<>>
    /\ calls = {}
    /\ orders = <<>>
    /\ sleeps = <<>>
    /\ faults = 0
    /\ interrupted = <<>>
    /\ entered = <<>>
    /\ brokerPos = 0
    /\ pending = <<>>

\* lines 155-161: the price is resolved, then the division of line 160 either
\* raises ZeroDivisionError or gives the number of shares
FnCalculateOrderQuantity ==
    /\ pc = "fn"
    /\ pc' = "fn_sized"
    /\ LET price == IF QuotePrice(quote) = 0 THEN last_trade ELSE QuotePrice(quote)
       IN  /\ last_price' = price
           /\ IF price = 0
              THEN /\ exc' = "ZeroDivisionError"
                   /\ UNCHANGED qty
              ELSE /\ qty' = Shares(equity, fraction, price)
                   /\ UNCHANGED exc
    /\ UNCHANGED <<cycle, bars, vagus_bars, latest_rsi, rsi_lower_adj, rsi_upper_adj,
                   position, lookup, equity, vagus_factor, fraction, quote,
                   last_trade, sensitivity, out, calls, orders, sleeps, faults,
                   interrupted, entered, broker>>

\* lines 83-100 on the bars fetched
FnGetVagusNerveFactor ==
    /\ pc = "fn_sized"
    /\ pc' = "fn_done"
    /\ vagus_factor' = get_vagus_nerve_factor(vagus_bars, sensitivity)
    /\ UNCHANGED <<cycle, bars, vagus_bars, latest_rsi, rsi_lower_adj, rsi_upper_adj,
                   position, lookup, equity, last_price, qty, fraction, quote,
                   last_trade, sensitivity, exc, out, calls, orders, sleeps, faults,
                   interrupted, entered, broker>>

FnNext ==
    \/ FnCalculateOrderQuantity
    \/ FnGetVagusNerveFactor

FnSpec == FnInit /\ [][FnNext]_vars

TypeOK ==
    /\ pc \in {"start", "bars", "signal", "position", "sell", "account", "quote",
               "trade", "buy", "sleep", "except", "exit", "crashed",
               "fn", "fn_sized", "fn_done"}
    /\ cycle \in 0..MaxCycles
    /\ faults \in 0..MaxCycles
    /\ Len(orders) <= MaxCycles

-----------------------------------------------------------------------------
(* Vocabulary of the claims *)

\* the orders submitted in cycle c, as indices of orders
OrdersOfCycle(c) == { i \in 1..Len(orders) : orders[i].cycle = c }

BuysOfCycle(c) == { i \in OrdersOfCycle(c) : orders[i].side = "buy" }

\* trade_decision has returned or raised and the loop has not moved on yet
CycleOver == pc \in {"sleep", "except"}

Flat == position.state = "none"

Long == position.state = "held" /\ position.qty > 0

-----------------------------------------------------------------------------
(* C1 *)

\* C1: in every cycle, whatever the bars, signal, position, account and quote
\* are, at most one order is submitted to the brokerage.
C1_AtMostOneOrderPerCycle ==
    \A c \in 1..MaxCycles : Cardinality(OrdersOfCycle(c)) <= 1

\* two cycles have each submitted their one order
C1_Witness ==
    /\ CycleOver
    /\ cycle >= 2
    /\ Cardinality(OrdersOfCycle(cycle)) = 1
    /\ Cardinality(OrdersOfCycle(cycle - 1)) = 1

-----------------------------------------------------------------------------
(* C2 *)

\* C2: when the previous cycle submitted a buy order that the brokerage
\* accepted, and this cycle has the same bars and signal, this cycle submits
\* no buy order (stated for the cycles whose position lookup was answered
\* truthfully).
C2_NoDoubleEntry ==
    (entered # <<>> /\ faults = 0 /\ entered[1] = Signal /\ lookup # "api_error")
        => BuysOfCycle(cycle) = {}

-----------------------------------------------------------------------------
(* C3 *)

\* C3: a cycle that ends in the except clause is logged and followed by the
\* next cycle unless the interrupt arrives, however many cycles in a row have
\* failed; once the loop runs, nothing but the interrupt ends the process.
C3_NextCycleRuns ==
    /\ \A k \in 1..(MaxCycles - 1) :
          (pc = "except" /\ cycle = k) ~> (cycle = k + 1 \/ interrupted # <<>>)
    /\ [](faults > 0 /\ pc = "bars" => out = <<"Error encountered">>)
    /\ [](cycle > 0 /\ pc \in {"exit", "crashed"} => interrupted # <<>>)

\* a cycle runs after two faulty cycles in a row
C3_Witness ==
    /\ faults >= 2
    /\ pc = "signal"
    /\ interrupted = <<>>

-----------------------------------------------------------------------------
(* C4 *)

\* C4: in a cycle that found no position and an oscillator strictly below the
\* adjusted lower threshold, and whose sizer returned a quantity: if the
\* quantity is > 0 exactly one order is submitted, a buy of that quantity; if
\* it is 0 no order is submitted, the cycle reports the zero quantity and
\* returns normally.
C4_EntryOrder ==
    (CycleOver /\ Flat /\ RLt(latest_rsi, rsi_lower_adj) /\ last_price # 0)
        => LET shares == Shares(equity, POSITION_SIZE_FRACTION, last_price)
           IN  IF shares > 0
               THEN /\ Cardinality(OrdersOfCycle(cycle)) = 1
                    /\ \A i \in OrdersOfCycle(cycle) :
                          orders[i].side = "buy" /\ orders[i].qty = shares
               ELSE /\ OrdersOfCycle(cycle) = {}
                    /\ pc = "sleep"
                    /\ exc = ""
                    /\ out[Len(out)] = "Calculated quantity was 0"

\* a flat cycle below the lower threshold has bought the 10 shares that a
\* tenth of 10000 pays for, after a flat cycle that could not pay for one
C4_Witness ==
    /\ pc = "sleep"
    /\ Flat
    /\ RLt(latest_rsi, rsi_lower_adj)
    /\ equity = 10000
    /\ \E i \in OrdersOfCycle(cycle) : orders[i].side = "buy" /\ orders[i].qty = 10
    /\ cycle >= 2
    /\ OrdersOfCycle(cycle - 1) = {}

-----------------------------------------------------------------------------
(* C5 *)

\* C5: in a cycle that found a long position of q shares and an oscillator
\* strictly above the adjusted upper threshold, exactly one order is
\* submitted: a sell of exactly q shares.
C5_ExitOrder ==
    (CycleOver /\ Long /\ RGt(latest_rsi, rsi_upper_adj))
        => /\ Cardinality(OrdersOfCycle(cycle)) = 1
           /\ \A i \in OrdersOfCycle(cycle) :
                 orders[i].side = "sell" /\ orders[i].qty = position.qty

\* the 9 shares held at the start have been sold in one order
C5_Witness ==
    /\ CycleOver
    /\ position = [state |-> "held", qty |-> 9]
    /\ RGt(latest_rsi, rsi_upper_adj)
    /\ \E i \in OrdersOfCycle(cycle) : orders[i].side = "sell" /\ orders[i].qty = 9

-----------------------------------------------------------------------------
(* C6 *)

\* C6: in a cycle that found no position and an oscillator greater than or
\* equal to the adjusted lower threshold, no order is submitted, the account,
\* the quote and the last trade are not queried, and the cycle returns.
C6_NoEntryAtOrAboveLower ==
    (Flat /\ RGe(latest_rsi, rsi_lower_adj))
        => /\ OrdersOfCycle(cycle) = {}
           /\ calls \cap {"get_account", "get_last_quote", "get_last_trade",
                          "submit_order"} = {}
           /\ pc = "sleep"
           /\ out[Len(out)] = "No trade signal"

\* a flat cycle whose oscillator equals the adjusted lower threshold
C6_Witness ==
    /\ Flat
    /\ ~IsNaN(latest_rsi)
    /\ latest_rsi = rsi_lower_adj
    /\ pc = "sleep"

-----------------------------------------------------------------------------
(* C7 *)

\* C7: in a cycle that found a long position and an oscillator less than or
\* equal to the adjusted upper threshold, no order is submitted, also when
\* the oscillator is below the adjusted lower threshold.
C7_NoOrderWhileLong ==
    (Long /\ RLe(latest_rsi, rsi_upper_adj))
        => /\ OrdersOfCycle(cycle) = {}
           /\ calls \cap {"get_account", "get_last_quote", "get_last_trade",
                          "submit_order"} = {}
           /\ pc = "sleep"

\* a long cycle whose oscillator is below the adjusted lower threshold
C7_Witness ==
    /\ Long
    /\ RLt(latest_rsi, rsi_lower_adj)
    /\ pc = "sleep"
    /\ OrdersOfCycle(cycle) = {}

-----------------------------------------------------------------------------
(* C8 *)

\* C8: a cycle whose position lookup failed for another reason than not-found
\* submits no buy order.
C8_LookupFaultIsCycleFault ==
    lookup \in {"api_error", "transport_error"} => BuysOfCycle(cycle) = {}

-----------------------------------------------------------------------------
(* C9 *)

\* C9: the process ends only by the interrupt: it is never found ended
\* without the interrupt having arrived.
C9_OnlyInterruptEnds ==
    pc \in {"exit", "crashed"} => interrupted # <<>>

-----------------------------------------------------------------------------
(* C10 *)

\* C10: an interrupt that arrives once the loop runs, in a cycle, in the
\* sleep after a cycle or in the sleep after a logged fault, ends the loop
\* through the shutdown handler and never as an uncaught exception.
C10_InterruptIsGraceful ==
    (interrupted # <<>> /\ interrupted[1] # "start")
        => /\ pc = "exit"
           /\ exc = ""
           /\ out = <<"Shutting down gracefully">>

-----------------------------------------------------------------------------
(* C11 *)

\* C11: when fewer than 14 bars are fetched for the cycle, the cycle is
\* skipped: it returns normally with no fault raised, the signal is not
\* computed, the position is not queried, no order is submitted, and the next
\* thing the loop does is the sleep to the next interval.
C11_ShortBarsSkipCycle ==
    (bars # <<>> /\ Len(bars) < MIN_BARS)
        => /\ pc = "sleep"
           /\ exc = ""
           /\ faults = 0
           /\ calls = {"get_bars"}
           /\ IsNaN(latest_rsi)
           /\ position = NoPosition
           /\ OrdersOfCycle(cycle) = {}
           /\ out = <<"Not enough bars">>

\* a cycle has fetched 13 bars
C11_Witness ==
    /\ Len(bars) = MIN_BARS - 1
    /\ cycle >= 1
    /\ pc = "sleep"

-----------------------------------------------------------------------------
(* C12 *)

\* C12: every order ever submitted is for the configured symbol, has a
\* strictly positive integer quantity, side buy or sell, type market and
\* time-in-force gtc; the buy of a cycle is submitted with a position snapshot
\* that is absent, the sell of a cycle with a snapshot that is long.
C12_OrdersWellFormed ==
    /\ \A i \in 1..Len(orders) :
          /\ orders[i].symbol = SYMBOL
          /\ orders[i].qty \in Nat \ {0}
          /\ orders[i].side \in {"buy", "sell"}
          /\ orders[i].type = "market"
          /\ orders[i].time_in_force = "gtc"
    /\ CycleOver
          => \A i \in OrdersOfCycle(cycle) :
                /\ orders[i].side = "buy" => Flat
                /\ orders[i].side = "sell" => Long

\* a sell of the shares held and, in a later cycle, a buy have been submitted
C12_Witness ==
    /\ CycleOver
    /\ \E i \in OrdersOfCycle(cycle) : orders[i].side = "buy"
    /\ \E i \in 1..Len(orders) : orders[i].side = "sell"

-----------------------------------------------------------------------------
(* C13 *)

\* C13: for every equity >= 0, fraction in [0,1] and quote,
\* calculate_order_quantity returns floor(equity * fraction / price) as a
\* non-negative integer, where price is the ask price if it is > 0, otherwise
\* the bid price if it is not 0, otherwise the price of the last trade.
C13_SizerReturnsFloor ==
    pc \in {"fn_sized", "fn_done"}
        => LET price == IF quote.askprice > 0 THEN quote.askprice
                        ELSE IF quote.bidprice # 0 THEN quote.bidprice
                        ELSE last_trade
           IN  /\ last_price = price
               /\ exc = ""
               /\ qty \in Nat
               /\ qty = FloorDiv(equity * fraction[1], fraction[2] * price)

-----------------------------------------------------------------------------
(* C14 *)

\* C14 as stated: for fraction 0.1, equity 10000 and price 100,
\* calculate_order_quantity returns 9.
C14_NineShares ==
    (pc \in {"fn_sized", "fn_done"} /\ fraction = <<1, 10>> /\ equity = 10000
        /\ last_price = 100)
        => qty = 9

\* C14: for fraction 0.1, equity 10000 and price 100,
\* calculate_order_quantity returns 10, the floor of 1000 / 100.
C14_TenShares ==
    (pc \in {"fn_sized", "fn_done"} /\ fraction = <<1, 10>> /\ equity = 10000
        /\ last_price = 100)
        => /\ exc = ""
           /\ qty = 10

\* the sizer has been applied to 0.1, 10000 and an ask price of 100
C14_Witness ==
    /\ pc = "fn_sized"
    /\ fraction = <<1, 10>>
    /\ equity = 10000
    /\ quote.askprice = 100
    /\ last_price = 100
    /\ qty = 10

-----------------------------------------------------------------------------
(* C15 *)

\* C15: when ask, bid and last trade price are all 0, the zero price is
\* rejected before the division: no division by zero is executed, the sizer
\* does not return 0 either, and no order is submitted in the cycle.
C15_ZeroPriceGuarded ==
    (CycleOver /\ "get_last_trade" \in calls /\ exc \notin FaultKinds
        /\ quote = NoQuote /\ last_trade = 0)
        => /\ exc # "ZeroDivisionError"
           /\ OrdersOfCycle(cycle) = {}

-----------------------------------------------------------------------------
(* C16 *)

\* C16: when the fetch of get_vagus_nerve_factor gives fewer than 14 bars, the
\* factor is exactly 1.0 and no fault is raised, so the adjusted thresholds of
\* the cycle are the base thresholds.
C16_ShortSeriesNeutral ==
    (vagus_bars # <<>> /\ Len(vagus_bars) < MIN_BARS)
        => /\ vagus_factor = Int2Rat(1)
           /\ rsi_lower_adj = Int2Rat(RSI_LOWER)
           /\ rsi_upper_adj = Int2Rat(RSI_UPPER)
           /\ pc = "except" => "get_position" \in calls

\* a cycle has gone on to the position lookup with the factor of 13 bars
C16_Witness ==
    /\ Len(vagus_bars) = MIN_BARS - 1
    /\ vagus_factor = Int2Rat(1)
    /\ pc = "position"

-----------------------------------------------------------------------------
(* C17 *)

\* the positions inside trade_decision, after its first call has returned
MidCycle == {"signal", "position", "sell", "account", "quote", "trade", "buy"}

\* C17 as stated: an interrupt never aborts a cycle in progress; it ends the
\* loop only before trade_decision has started or after it has run to its end.
C17_NoMidCycleInterrupt ==
    interrupted # <<>> => interrupted[1] \notin MidCycle

\* C17: an interrupt that arrives while trade_decision is in progress aborts
\* the cycle at that point: what the cycle had not done yet is not done, an
\* order about to be submitted included, and the loop ends through the
\* shutdown handler.
C17_InterruptAbortsCycle ==
    (interrupted # <<>> /\ interrupted[1] \in MidCycle)
        => /\ pc = "exit"
           /\ exc = ""
           /\ out = <<"Shutting down gracefully">>
           /\ interrupted[1] \in {"sell", "buy"} => OrdersOfCycle(cycle) = {}

\* the interrupt arrived when a buy was about to be submitted
C17_Witness ==
    /\ interrupted = <<"buy">>
    /\ pc = "exit"
    /\ OrdersOfCycle(cycle) = {}

-----------------------------------------------------------------------------
(* C18 *)

\* C18: between the end of a cycle and the start of the next one exactly one
\* sleep of LOOP_INTERVAL takes place, after a caught fault as after a normal
\* return; no cycle starts without that sleep having been taken.
C18_OneSleepBetweenCycles ==
    /\ (pc = "bars" /\ cycle >= 1) => sleeps = <<LOOP_INTERVAL>>
    /\ (pc \in MidCycle \/ CycleOver) => sleeps = <<>>

\* the loop is about to start a cycle after a fault and after a normal return
C18_Witness ==
    /\ pc = "bars"
    /\ cycle >= 2
    /\ faults > 0
    /\ sleeps = <<LOOP_INTERVAL>>

-----------------------------------------------------------------------------
(* C19 *)

\* C19 as stated: for every sensitivity >= 0 and every stress_factor >= 0 the
\* factor is strictly positive; it is non-positive only when sensitivity > 1
\* and stress_factor < 0.
C19_PositiveFactor ==
    (pc = "fn_done" /\ Len(vagus_bars) >= MIN_BARS)
        => LET stress == StressFactor(vagus_bars)
           IN  /\ (RGe(sensitivity, Int2Rat(0)) /\ RGe(stress, Int2Rat(0)))
                      => RGt(vagus_factor, Int2Rat(0))
               /\ RLe(vagus_factor, Int2Rat(0))
                      => (RGt(sensitivity, Int2Rat(1)) /\ RLt(stress, Int2Rat(0)))

\* C19: the factor is non-positive exactly when
\* sensitivity * (1 - stress_factor) >= 1; so for a sensitivity in [0, 1) and
\* every stress_factor >= 0 it is strictly positive, and a sensitivity > 1
\* makes it non-positive already for a stress_factor in [0, 1).
C19_FactorSign ==
    (pc = "fn_done" /\ Len(vagus_bars) >= MIN_BARS)
        => LET stress == StressFactor(vagus_bars)
               calm == RSub(Int2Rat(1), stress)
           IN  /\ RLe(vagus_factor, Int2Rat(0))
                      <=> RGe(RMul(sensitivity, calm), Int2Rat(1))
               /\ (RGe(sensitivity, Int2Rat(0)) /\ RLt(sensitivity, Int2Rat(1))
                      /\ RGe(stress, Int2Rat(0)))
                      => RGt(vagus_factor, Int2Rat(0))

\* a sensitivity of 2 on a market that does not move: the factor is -1
C19_Witness ==
    /\ pc = "fn_done"
    /\ sensitivity = Int2Rat(2)
    /\ StressFactor(vagus_bars) = Int2Rat(0)
    /\ vagus_factor = Int2Rat(-1)

-----------------------------------------------------------------------------
(* C20 *)

\* C20: in a cycle whose position snapshot has a negative quantity, no order
\* is submitted whatever the oscillator and the thresholds are: the cycle
\* returns without the exit and without the entry branch.
C20_ShortIsLeftAlone ==
    (position.state = "held" /\ position.qty < 0)
        => /\ OrdersOfCycle(cycle) = {}
           /\ pc = "sleep"
           /\ exc = ""
           /\ calls \cap {"get_account", "get_last_quote", "get_last_trade",
                          "submit_order"} = {}

\* a second cycle has seen the short position, with the oscillator below the
\* adjusted lower threshold
C20_Witness ==
    /\ position.state = "held"
    /\ position.qty < 0
    /\ RLt(latest_rsi, rsi_lower_adj)
    /\ cycle >= 2
    /\ pc = "sleep"

====
